---- MODULE Spec2Model ----
(***************************************************************************)
(* Model of monitoring/user-stats-exporter/user_stats_exporter.py: the     *)
(* nginx per-user stats exporter.  The processor thread repeats            *)
(* process_log_file, update_active_connections,                            *)
(* calculate_requests_per_second, sleep; nginx appends lines to the access *)
(* log; the wall clock advances.                                           *)
(*                                                                         *)
(* A log line is a record of its tokens.  The tokens the regular           *)
(* expressions constrain by character class (status, bytes, rt) and the    *)
(* URI, whose prefix is tested, are sequences of one-character strings.    *)
(* The read position is counted in lines instead of bytes.                 *)
(***************************************************************************)
EXTENDS Integers, Sequences, FiniteSets, TLC

VARIABLES
    user_requests_total,          \* Counter  <<user_ip, status, method, route>>
    user_bytes_total,             \* Counter  <<user_ip, direction>>
    rate_limit_hits_total,        \* Counter  <<user_ip, route, http_method>>
    rate_limit_hits_global_total, \* Counter  <<route, http_method>>
    timeout_events_total,         \* Counter  <<user_ip, route, timeout_type, http_method>>
    timeout_events_global_total,  \* Counter  <<route, timeout_type, http_method>>
    user_active_connections,      \* Gauge    user_ip
    user_requests_per_second,     \* Gauge    user_ip, a fraction [num, den]
    user_last_request_time,       \* Gauge    user_ip
    user_request_duration_seconds,\* Histogram <<user_ip, route>>, observations
    active_users,                 \* defaultdict(int): user_ip -> request count
    user_last_seen,               \* dict: user_ip -> time of the last request
    log,                          \* lines of the access log file
    log_exists,                   \* os.path.exists(log_file_path)
    log_position,                 \* content of the position file
    pc,                           \* where the processor thread is
    f_pos,                        \* read offset of f in process_log_file
    current_time,                 \* current_time of process_log_file
    now,                          \* the wall clock, time.time()
    response                      \* what do_GET sent for the last request

counters == <<user_requests_total, user_bytes_total, rate_limit_hits_total,
              rate_limit_hits_global_total, timeout_events_total,
              timeout_events_global_total>>
gauges   == <<user_active_connections, user_requests_per_second,
              user_last_request_time>>
histograms == <<user_request_duration_seconds>>
tracker  == <<active_users, user_last_seen>>
files    == <<log, log_exists, log_position>>
proc     == <<pc, f_pos, current_time>>
vars     == <<counters, gauges, tracker, files, proc, now, response, histograms>>

----------------------------------------------------------------------------
(* Bounds of the model *)

MaxLines == 2      \* lines written to the log in the general specification
MaxBurst == 11     \* lines written to the log in the burst specification
MaxTime  == 62     \* last value of the wall clock

(* Steps by which the wall clock advances *)
Deltas == {30, 31}

----------------------------------------------------------------------------
(* Tokens *)

Digit == [c \in {"0","1","2","3","4","5","6","7","8","9"} |->
            CASE c = "0" -> 0 [] c = "1" -> 1 [] c = "2" -> 2 [] c = "3" -> 3
              [] c = "4" -> 4 [] c = "5" -> 5 [] c = "6" -> 6 [] c = "7" -> 7
              [] c = "8" -> 8 [] c = "9" -> 9]

(* \d+ *)
IsDigits(tok) ==
    /\ Len(tok) > 0
    /\ \A i \in 1..Len(tok) : tok[i] \in DOMAIN Digit

(* [\d.]+ *)
IsDigitsOrDots(tok) ==
    /\ Len(tok) > 0
    /\ \A i \in 1..Len(tok) : tok[i] \in DOMAIN Digit \/ tok[i] = "."

(* \S+ of a token kept as a string *)
NonEmpty(s) == s # ""

RECURSIVE IntVal(_)
(* int(tok) of a token of digits *)
IntVal(tok) ==
    IF tok = <<>> THEN 0
    ELSE 10 * IntVal(SubSeq(tok, 1, Len(tok) - 1)) + Digit[tok[Len(tok)]]

RECURSIVE Pow10(_)
Pow10(n) == IF n = 0 THEN 1 ELSE 10 * Pow10(n - 1)

DotsOf(tok) == {i \in 1..Len(tok) : tok[i] = "."}

(* float(tok) raises ValueError unless tok is digits with at most one dot *)
FloatValid(tok) ==
    /\ IsDigitsOrDots(tok)
    /\ Cardinality(DotsOf(tok)) <= 1
    /\ Len(tok) > Cardinality(DotsOf(tok))

(* float(tok) as the fraction mant / 10^scale *)
FloatVal(tok) ==
    LET digits == SelectSeq(tok, LAMBDA c : c # ".")
        scale  == IF DotsOf(tok) = {} THEN 0
                  ELSE Len(tok) - (CHOOSE i \in DotsOf(tok) : TRUE)
    IN  [present |-> TRUE, mant |-> IntVal(digits), scale |-> scale]

(* request_time = None *)
NoTime == [present |-> FALSE, mant |-> 0, scale |-> 0]

(* s.startswith(p) *)
StartsWith(s, p) == Len(s) >= Len(p) /\ SubSeq(s, 1, Len(p)) = p

----------------------------------------------------------------------------
(* Log lines *)

(* A line of the access log:
   remote_addr - user [time_local] "method uri proto" status body_bytes_sent
   "referer" "agent" "xff" rt=rt uct="..." uht="..." urt="..."
   quoted: the three quoted fields after the byte count are there;
   has_rt: the timing suffix rt=... uct= uht= urt= is there. *)
Line(addr, method, uri, status, bytes, quoted, has_rt, rt) ==
    [remote_addr |-> addr, time_local |-> "25/Dec/2023:10:00:00 +0000",
     method |-> method, uri |-> uri, status |-> status,
     body_bytes_sent |-> bytes, quoted |-> quoted, has_rt |-> has_rt,
     rt |-> rt]

UserA == "192.168.1.1"
UserB == "192.168.1.2"

UriServer1    == <<"/","s","e","r","v","e","r","1">>
UriServer1Sub == <<"/","s","e","r","v","e","r","1","/","x">>
UriServer2    == <<"/","s","e","r","v","e","r","2">>
UriRoot       == <<"/">>

(* Lines nginx writes in the general specification *)
Lines ==
    { Line(UserA, "GET",  UriServer1,    <<"2","0","0">>, <<"1","0","0","0">>, TRUE, TRUE,  <<"0",".","1">>),
      Line(UserA, "GET",  UriServer1Sub, <<"2","0","0">>, <<"2","0","0","0">>, TRUE, TRUE,  <<"6","0","0",".","0">>),
      Line(UserB, "GET",  UriServer2,    <<"4","0","8">>, <<"5","0","0","0">>, TRUE, FALSE, <<>>),
      Line(UserA, "POST", UriRoot,       <<"4","2","9">>, <<"0">>,             TRUE, TRUE,  <<"7","0","0">>),
      Line(UserB, "POST", UriRoot,       <<"4","2","9">>, <<"0">>,             TRUE, TRUE,  <<"6","5","0",".","5">>),
      Line(UserB, "GET",  UriServer1,    <<"5","0","4">>, <<"0">>,             TRUE, TRUE,  <<"7","0","0",".","0">>),
      Line(UserA, "GET",  UriServer1,    <<"2","0","0">>, <<"7">>,             FALSE, FALSE, <<>>) }

(* Lines nginx writes in the burst specification: one client, one request *)
BurstLines ==
    { Line(UserA, "GET", UriServer1, <<"2","0","0">>, <<"1","0","0","0">>, TRUE, TRUE, <<"0",".","1">>) }

----------------------------------------------------------------------------
(* parse_log_line *)

(* a pattern that stops after the byte count *)
PrefixMatch_NoQuotedFields(line) ==
    /\ NonEmpty(line.remote_addr)
    /\ NonEmpty(line.method)
    /\ Len(line.uri) > 0
    /\ IsDigits(line.status)
    /\ IsDigits(line.body_bytes_sent)

(* the groups both patterns share, up to the three quoted fields *)
PrefixMatch(line) ==
    /\ NonEmpty(line.remote_addr)
    /\ NonEmpty(line.method)
    /\ Len(line.uri) > 0
    /\ IsDigits(line.status)
    /\ IsDigits(line.body_bytes_sent)
    /\ line.quoted

(* re.match(enhanced_pattern, line) *)
EnhancedMatch(line) ==
    /\ PrefixMatch(line)
    /\ line.has_rt
    /\ IsDigitsOrDots(line.rt)

(* re.match(pattern, line): not anchored at the end, a suffix is ignored *)
BasicMatch(line) == PrefixMatch(line)

(* uri == '/server1', uri == '/server2' *)
Route_Exact(uri) ==
    IF uri = UriServer1 THEN "/server1"
    ELSE IF uri = UriServer2 THEN "/server2"
    ELSE "/"

(* route = '/' ; '/server1' ; '/server2' *)
Route(uri) ==
    IF StartsWith(uri, UriServer1) THEN "/server1"
    ELSE IF StartsWith(uri, UriServer2) THEN "/server2"
    ELSE "/"

(* any 4xx status taken for a rate-limit rejection *)
RateLimitHit_Any4xx(status) == Len(status) = 3 /\ status[1] = "4"

(* rate_limit_hit = (status == '429') *)
RateLimitHit(status) == status = <<"4","2","9">>

(* proxy_read_timeout, the 600.0 of the response-time rule *)
ProxyReadTimeout == 600

(* request_time >= 600.0 *)
SlowResponse_Inclusive(request_time) ==
    /\ request_time.present
    /\ request_time.mant # 0
    /\ request_time.mant >= 600 * Pow10(request_time.scale)

(* request_time and request_time > 600.0 *)
SlowResponse(request_time) ==
    /\ request_time.present
    /\ request_time.mant # 0
    /\ request_time.mant > ProxyReadTimeout * Pow10(request_time.scale)

(* timeout_type; '' when timeout_hit is False *)
TimeoutType(status, request_time) ==
    IF status = <<"5","0","4">> THEN "gateway_timeout"
    ELSE IF status = <<"4","0","8">> THEN "request_timeout"
    ELSE IF SlowResponse(request_time) THEN "response_timeout"
    ELSE ""

(* the dict without the default of the route *)
Entry_NoDefaultRoute(line, request_time) ==
    [user_ip        |-> line.remote_addr,
     time           |-> line.time_local,
     method         |-> line.method,
     uri            |-> line.uri,
     route          |-> IF Route(line.uri) = "/" THEN "" ELSE Route(line.uri),
     status         |-> line.status,
     bytes_sent     |-> IntVal(line.body_bytes_sent),
     request_time   |-> request_time,
     rate_limit_hit |-> RateLimitHit(line.status),
     timeout_hit    |-> TimeoutType(line.status, request_time) # "",
     timeout_type   |-> TimeoutType(line.status, request_time)]

(* the dict parse_log_line returns *)
Entry(line, request_time) ==
    [user_ip        |-> line.remote_addr,
     time           |-> line.time_local,
     method         |-> line.method,
     uri            |-> line.uri,
     route          |-> Route(line.uri),
     status         |-> line.status,
     bytes_sent     |-> IntVal(line.body_bytes_sent),
     request_time   |-> request_time,
     rate_limit_hit |-> RateLimitHit(line.status),
     timeout_hit    |-> TimeoutType(line.status, request_time) # "",
     timeout_type   |-> TimeoutType(line.status, request_time)]

(* the basic pattern tried first *)
parse_log_line_BasicFirst(line) ==
    IF BasicMatch(line)
    THEN <<Entry(line, NoTime)>>
    ELSE <<>>

(* only the enhanced pattern tried *)
parse_log_line_NoFallback(line) ==
    IF EnhancedMatch(line)
    THEN IF FloatValid(line.rt)
         THEN <<Entry(line, FloatVal(line.rt))>>
         ELSE <<>>
    ELSE <<>>

(* parse_log_line(line): <<>> is None, <<e>> is the dict e *)
parse_log_line(line) ==
    IF EnhancedMatch(line)
    THEN IF FloatValid(line.rt)
         THEN <<Entry(line, FloatVal(line.rt))>>
         ELSE <<>>                     \* ValueError of float(), caught
    ELSE IF ~BasicMatch(line)
         THEN <<>>
         ELSE <<Entry(line, NoTime)>>

----------------------------------------------------------------------------
(* Metric store: a metric maps the label tuples created so far to values *)

(* value of a child, 0 before .labels() created it *)
Val(m, k) == IF k \in DOMAIN m THEN m[k] ELSE 0

(* m.labels(k).inc(amt) *)
Inc(m, k, amt) ==
    [x \in DOMAIN m \cup {k} |-> IF x = k THEN Val(m, k) + amt ELSE m[x]]

(* m.labels(k).set(v), also d[k] = v of a dict *)
Set(m, k, v) ==
    [x \in DOMAIN m \cup {k} |-> IF x = k THEN v ELSE m[x]]

(* the status label coarsened to its class, 2xx, 4xx, 5xx *)
IncRequests_StatusClass(e) ==
    Inc(user_requests_total,
        <<e.user_ip, <<e.status[1], "x", "x">>, e.method, e.route>>, 1)

----------------------------------------------------------------------------
(* The body of the loop of process_log_file, for the entry e of one line *)

(* .inc() without the amount *)
IncBytes_ByOne(e) ==
    Inc(user_bytes_total, <<e.user_ip, "sent">>, 1)

(* the byte count assigned, not added *)
IncBytes_Assign(e) ==
    Set(user_bytes_total, <<e.user_ip, "sent">>, e.bytes_sent)

IncRequests(e) ==
    Inc(user_requests_total, <<e.user_ip, e.status, e.method, e.route>>, 1)

IncBytes(e) ==
    Inc(user_bytes_total, <<e.user_ip, "sent">>, e.bytes_sent)

(* the global increment outside the "if rate_limit_hit" block *)
IncRateLimitGlobal_Unconditional(e) ==
    Inc(rate_limit_hits_global_total, <<e.route, e.method>>, 1)

IncRateLimit(e) ==
    IF e.rate_limit_hit
    THEN Inc(rate_limit_hits_total, <<e.user_ip, e.route, e.method>>, 1)
    ELSE rate_limit_hits_total

IncRateLimitGlobal(e) ==
    IF e.rate_limit_hit
    THEN Inc(rate_limit_hits_global_total, <<e.route, e.method>>, 1)
    ELSE rate_limit_hits_global_total

(* the global increment labelled without the HTTP method of the request *)
IncTimeoutGlobal_FixedMethod(e) ==
    IF e.timeout_hit
    THEN Inc(timeout_events_global_total, <<e.route, e.timeout_type, "GET">>, 1)
    ELSE timeout_events_global_total

IncTimeout(e) ==
    IF e.timeout_hit
    THEN Inc(timeout_events_total,
             <<e.user_ip, e.route, e.timeout_type, e.method>>, 1)
    ELSE timeout_events_total

IncTimeoutGlobal(e) ==
    IF e.timeout_hit
    THEN Inc(timeout_events_global_total,
             <<e.route, e.timeout_type, e.method>>, 1)
    ELSE timeout_events_global_total

(* active_users[user_ip] = 1 *)
TrackRequest_Overwrite(e) == Set(active_users, e.user_ip, 1)

(* active_users[user_ip] += 1 *)
TrackRequest(e) == Inc(active_users, e.user_ip, 1)

(* user_last_seen[user_ip] = current_time *)
TrackLastSeen(e) == Set(user_last_seen, e.user_ip, current_time)

----------------------------------------------------------------------------
(* update_active_connections and calculate_requests_per_second *)

active_threshold == 60
window_seconds   == 60
ConnectionsCap   == 10

Min(a, b) == IF a < b THEN a ELSE b

(* current_time - last_seen <= active_threshold *)
IsActive_Inclusive(t, last_seen) == t - last_seen <= active_threshold

(* current_time - last_seen < active_threshold *)
IsActive(t, last_seen) == t - last_seen < active_threshold

(* the gauge set to the request count itself *)
ClampConnections_NoCap(recent_requests) == recent_requests

(* min(recent_requests, 10) *)
ClampConnections(recent_requests) == Min(recent_requests, ConnectionsCap)

(* the gauge of an active client set to recent_requests *)
ActiveConnectionsAfter_Raw(t) ==
    [u \in DOMAIN user_active_connections \cup DOMAIN user_last_seen |->
        IF u \in DOMAIN user_last_seen
        THEN IF IsActive(t, user_last_seen[u])
             THEN Val(active_users, u)
             ELSE 0
        ELSE user_active_connections[u]]

(* user_active_connections after the loop of update_active_connections *)
ActiveConnectionsAfter(t) ==
    [u \in DOMAIN user_active_connections \cup DOMAIN user_last_seen |->
        IF u \in DOMAIN user_last_seen
        THEN IF IsActive(t, user_last_seen[u])
             THEN ClampConnections(Val(active_users, u))
             ELSE 0
        ELSE user_active_connections[u]]

(* the count of every tracked client reset by the refresh *)
ActiveUsersAfter_ResetAll(t) ==
    [u \in DOMAIN active_users \cup DOMAIN user_last_seen |-> 0]

(* the entries of inactive clients deleted *)
ActiveUsersAfter_Evict(t) ==
    LET reset == {u \in DOMAIN user_last_seen : ~IsActive(t, user_last_seen[u])}
    IN  [u \in DOMAIN active_users \ reset |-> active_users[u]]

(* active_users after the loop of update_active_connections *)
ActiveUsersAfter(t) ==
    LET reset == {u \in DOMAIN user_last_seen : ~IsActive(t, user_last_seen[u])}
    IN  [u \in DOMAIN active_users \cup reset |->
            IF u \in reset THEN 0 ELSE active_users[u]]

(* rps = active_users[user_ip] / window_seconds if active_users[user_ip] > 0 else 0 *)
Rps(n) ==
    IF n > 0 THEN [num |-> n, den |-> window_seconds]
    ELSE [num |-> 0, den |-> 1]

(* only the clients with a count above 0 written *)
RequestsPerSecondAfter_SkipZero ==
    LET written == {u \in DOMAIN user_last_seen \cap DOMAIN active_users :
                        active_users[u] > 0}
    IN  [u \in DOMAIN user_requests_per_second \cup written |->
            IF u \in written THEN Rps(active_users[u])
            ELSE user_requests_per_second[u]]

(* user_requests_per_second after the loop of calculate_requests_per_second *)
RequestsPerSecondAfter ==
    LET written == DOMAIN user_last_seen \cap DOMAIN active_users
    IN  [u \in DOMAIN user_requests_per_second \cup written |->
            IF u \in written THEN Rps(active_users[u])
            ELSE user_requests_per_second[u]]

----------------------------------------------------------------------------
(* State after construction: module-level globals, no position file,
   the processor thread about to call process_log_file *)

Empty == [x \in {} |-> 0]

(* the metrics as generate_latest() renders them *)
Snapshot ==
    [user_requests_total          |-> user_requests_total,
     user_bytes_total             |-> user_bytes_total,
     user_active_connections      |-> user_active_connections,
     user_requests_per_second     |-> user_requests_per_second,
     user_last_request_time       |-> user_last_request_time,
     user_request_duration_seconds |-> user_request_duration_seconds,
     rate_limit_hits_total        |-> rate_limit_hits_total,
     rate_limit_hits_global_total |-> rate_limit_hits_global_total,
     timeout_events_total         |-> timeout_events_total,
     timeout_events_global_total  |-> timeout_events_global_total]

NoMetrics ==
    [user_requests_total          |-> Empty,
     user_bytes_total             |-> Empty,
     user_active_connections      |-> Empty,
     user_requests_per_second     |-> Empty,
     user_last_request_time       |-> Empty,
     user_request_duration_seconds |-> Empty,
     rate_limit_hits_total        |-> Empty,
     rate_limit_hits_global_total |-> Empty,
     timeout_events_total         |-> Empty,
     timeout_events_global_total  |-> Empty]

(* no request served yet *)
NoResponse ==
    [path |-> "", code |-> 0, content_type |-> "", text |-> "",
     metrics |-> NoMetrics]

Init ==
    /\ user_requests_total = Empty
    /\ user_bytes_total = Empty
    /\ rate_limit_hits_total = Empty
    /\ rate_limit_hits_global_total = Empty
    /\ timeout_events_total = Empty
    /\ timeout_events_global_total = Empty
    /\ user_active_connections = Empty
    /\ user_requests_per_second = Empty
    /\ user_last_request_time = Empty
    /\ user_request_duration_seconds = Empty
    /\ active_users = Empty
    /\ user_last_seen = Empty
    /\ log = <<>>
    /\ log_exists = FALSE
    /\ log_position = 0
    /\ pc = "process_log_file"
    /\ f_pos = 0
    /\ current_time = 0
    /\ now = 0
    /\ response = NoResponse

----------------------------------------------------------------------------
(* The environment *)

(* nginx appends a line to the access log, creating the file *)
NginxWrites(line, max) ==
    /\ Len(log) < max
    /\ log' = Append(log, line)
    /\ log_exists' = TRUE
    /\ UNCHANGED <<counters, gauges, tracker, log_position, proc, now,
                   response, histograms>>

(* time passes *)
AdvanceClock(d) ==
    /\ now + d <= MaxTime
    /\ now' = now + d
    /\ UNCHANGED <<counters, gauges, tracker, files, proc, response, histograms>>

----------------------------------------------------------------------------
(* The processor thread: log_processor_loop *)

(* process_log_file up to f.seek(position); returns when there is no log *)
StartProcess ==
    /\ pc = "process_log_file"
    /\ IF log_exists
       THEN /\ f_pos' = log_position
            /\ current_time' = now
            /\ pc' = "for_line"
       ELSE /\ pc' = "update_active_connections"
            /\ UNCHANGED <<f_pos, current_time>>
    /\ UNCHANGED <<counters, gauges, tracker, files, now, response, histograms>>

(* an iteration that also publishes the connections gauge of the client *)
ProcessLine_SetsConnections ==
    /\ pc = "for_line"
    /\ f_pos < Len(log)
    /\ f_pos' = f_pos + 1
    /\ LET log_entry == parse_log_line(log[f_pos + 1])
       IN  IF log_entry # <<>>
           THEN LET e == log_entry[1]
                IN  /\ user_requests_total' = IncRequests(e)
                    /\ user_bytes_total' = IncBytes(e)
                    /\ rate_limit_hits_total' = IncRateLimit(e)
                    /\ rate_limit_hits_global_total' = IncRateLimitGlobal(e)
                    /\ timeout_events_total' = IncTimeout(e)
                    /\ timeout_events_global_total' = IncTimeoutGlobal(e)
                    /\ active_users' = TrackRequest(e)
                    /\ user_last_seen' = TrackLastSeen(e)
                    /\ user_last_request_time' =
                           Set(user_last_request_time, e.user_ip, current_time)
                    /\ user_active_connections' =
                           Set(user_active_connections, e.user_ip,
                               Val(active_users, e.user_ip) + 1)
                    /\ UNCHANGED user_requests_per_second
           ELSE UNCHANGED <<counters, gauges, tracker>>
    /\ UNCHANGED <<files, pc, current_time, now, response, histograms>>

(* one iteration of "for line in f" *)
ProcessLine ==
    /\ pc = "for_line"
    /\ f_pos < Len(log)
    /\ f_pos' = f_pos + 1
    /\ LET log_entry == parse_log_line(log[f_pos + 1])
       IN  IF log_entry # <<>>
           THEN LET e == log_entry[1]
                IN  /\ user_requests_total' = IncRequests(e)
                    /\ user_bytes_total' = IncBytes(e)
                    /\ rate_limit_hits_total' = IncRateLimit(e)
                    /\ rate_limit_hits_global_total' = IncRateLimitGlobal(e)
                    /\ timeout_events_total' = IncTimeout(e)
                    /\ timeout_events_global_total' = IncTimeoutGlobal(e)
                    /\ active_users' = TrackRequest(e)
                    /\ user_last_seen' = TrackLastSeen(e)
                    /\ user_last_request_time' =
                           Set(user_last_request_time, e.user_ip, current_time)
                    /\ UNCHANGED <<user_active_connections,
                                   user_requests_per_second>>
           ELSE UNCHANGED <<counters, gauges, tracker>>
    /\ UNCHANGED <<files, pc, current_time, now, response, histograms>>

(* end of file reached and the position not saved *)
EndProcess_NoSave ==
    /\ pc = "for_line"
    /\ f_pos >= Len(log)
    /\ pc' = "update_active_connections"
    /\ UNCHANGED <<counters, gauges, tracker, files, f_pos, current_time, now,
                   response, histograms>>

(* end of file: save_log_position(f.tell()) *)
EndProcess ==
    /\ pc = "for_line"
    /\ f_pos >= Len(log)
    /\ log_position' = f_pos
    /\ pc' = "update_active_connections"
    /\ UNCHANGED <<counters, gauges, tracker, log, log_exists, f_pos,
                   current_time, now, response, histograms>>

UpdateActiveConnections ==
    /\ pc = "update_active_connections"
    /\ user_active_connections' = ActiveConnectionsAfter(now)
    /\ active_users' = ActiveUsersAfter(now)
    /\ pc' = "calculate_requests_per_second"
    /\ UNCHANGED <<counters, user_requests_per_second, user_last_request_time,
                   user_last_seen, files, f_pos, current_time, now, response, histograms>>

CalculateRequestsPerSecond ==
    /\ pc = "calculate_requests_per_second"
    /\ user_requests_per_second' = RequestsPerSecondAfter
    /\ pc' = "sleep"
    /\ UNCHANGED <<counters, user_active_connections, user_last_request_time,
                   tracker, files, f_pos, current_time, now, response, histograms>>

(* time.sleep(5), then the next turn of the loop *)
Sleep ==
    /\ pc = "sleep"
    /\ pc' = "process_log_file"
    /\ UNCHANGED <<counters, gauges, tracker, files, f_pos, current_time, now,
                   response, histograms>>

Processor ==
    \/ StartProcess
    \/ ProcessLine
    \/ EndProcess
    \/ UpdateActiveConnections
    \/ CalculateRequestsPerSecond
    \/ Sleep

----------------------------------------------------------------------------
(* Specifications *)

Next ==
    \/ \E line \in Lines : NginxWrites(line, MaxLines)
    \/ \E d \in Deltas : AdvanceClock(d)
    \/ Processor

Spec == Init /\ [][Next]_vars

(* one client sending more requests than the cap of the connections gauge *)
NextBurst ==
    \/ \E line \in BurstLines : NginxWrites(line, MaxBurst)
    \/ \E d \in Deltas : AdvanceClock(d)
    \/ Processor

SpecBurst == Init /\ [][NextBurst]_vars

----------------------------------------------------------------------------
(* The two threads side by side.  The HTTP server thread answers a GET while
   the processor thread is anywhere in its loop, also between two statements
   of the body of "for line in f".  A statement of the body is one step; the
   line it works on is the one read last, log[f_pos].  generate_latest() is
   taken as one read of all metrics. *)

MaxConcLines == 2      \* lines written to the log in this specification

ConcLines ==
    { Line(UserA, "POST", UriRoot,    <<"4","2","9">>, <<"1","0","0","0">>, TRUE, TRUE,  <<"7","0","0">>),
      Line(UserB, "POST", UriRoot,    <<"5","0","4">>, <<"0">>,             TRUE, TRUE,  <<"7","0","0",".","0">>),
      Line(UserA, "GET",  UriServer1, <<"2","0","0">>, <<"7">>,             TRUE, FALSE, <<>>) }

(* log_entry of the iteration under way *)
CurrentEntry == parse_log_line(log[f_pos])[1]

(* for line in f: log_entry = parse_log_line(line); if log_entry: *)
ReadLine ==
    /\ pc = "for_line"
    /\ f_pos < Len(log)
    /\ f_pos' = f_pos + 1
    /\ pc' = IF parse_log_line(log[f_pos + 1]) # <<>>
             THEN "inc_requests" ELSE "for_line"
    /\ UNCHANGED <<counters, gauges, tracker, files, current_time, now,
                   response, histograms>>

(* the processor thread goes from one statement to another *)
Goto(from, to) ==
    /\ pc = from
    /\ pc' = to
    /\ UNCHANGED <<files, f_pos, current_time, now, response, histograms>>

StmtIncRequests ==
    /\ Goto("inc_requests", "inc_bytes")
    /\ user_requests_total' = IncRequests(CurrentEntry)
    /\ UNCHANGED <<user_bytes_total, rate_limit_hits_total,
                   rate_limit_hits_global_total, timeout_events_total,
                   timeout_events_global_total, gauges, tracker>>

StmtIncBytes ==
    /\ Goto("inc_bytes",
            IF CurrentEntry.rate_limit_hit THEN "inc_rate_limit"
            ELSE IF CurrentEntry.timeout_hit THEN "inc_timeout"
            ELSE "track_request")
    /\ user_bytes_total' = IncBytes(CurrentEntry)
    /\ UNCHANGED <<user_requests_total, rate_limit_hits_total,
                   rate_limit_hits_global_total, timeout_events_total,
                   timeout_events_global_total, gauges, tracker>>

StmtIncRateLimit ==
    /\ Goto("inc_rate_limit", "inc_rate_limit_global")
    /\ rate_limit_hits_total' = IncRateLimit(CurrentEntry)
    /\ UNCHANGED <<user_requests_total, user_bytes_total,
                   rate_limit_hits_global_total, timeout_events_total,
                   timeout_events_global_total, gauges, tracker>>

StmtIncRateLimitGlobal ==
    /\ Goto("inc_rate_limit_global",
            IF CurrentEntry.timeout_hit THEN "inc_timeout" ELSE "track_request")
    /\ rate_limit_hits_global_total' = IncRateLimitGlobal(CurrentEntry)
    /\ UNCHANGED <<user_requests_total, user_bytes_total,
                   rate_limit_hits_total, timeout_events_total,
                   timeout_events_global_total, gauges, tracker>>

StmtIncTimeout ==
    /\ Goto("inc_timeout", "inc_timeout_global")
    /\ timeout_events_total' = IncTimeout(CurrentEntry)
    /\ UNCHANGED <<user_requests_total, user_bytes_total,
                   rate_limit_hits_total, rate_limit_hits_global_total,
                   timeout_events_global_total, gauges, tracker>>

StmtIncTimeoutGlobal ==
    /\ Goto("inc_timeout_global", "track_request")
    /\ timeout_events_global_total' = IncTimeoutGlobal(CurrentEntry)
    /\ UNCHANGED <<user_requests_total, user_bytes_total,
                   rate_limit_hits_total, rate_limit_hits_global_total,
                   timeout_events_total, gauges, tracker>>

StmtTrackRequest ==
    /\ Goto("track_request", "track_last_seen")
    /\ active_users' = TrackRequest(CurrentEntry)
    /\ UNCHANGED <<counters, gauges, user_last_seen>>

StmtTrackLastSeen ==
    /\ Goto("track_last_seen", "set_last_request_time")
    /\ user_last_seen' = TrackLastSeen(CurrentEntry)
    /\ UNCHANGED <<counters, gauges, active_users>>

StmtSetLastRequestTime ==
    /\ Goto("set_last_request_time", "for_line")
    /\ user_last_request_time' =
           Set(user_last_request_time, CurrentEntry.user_ip, current_time)
    /\ UNCHANGED <<counters, user_active_connections,
                   user_requests_per_second, tracker>>

(* log_processor_loop, statement by statement inside the loop over the lines *)
ProcessorStmt ==
    \/ StartProcess
    \/ ReadLine
    \/ StmtIncRequests
    \/ StmtIncBytes
    \/ StmtIncRateLimit
    \/ StmtIncRateLimitGlobal
    \/ StmtIncTimeout
    \/ StmtIncTimeoutGlobal
    \/ StmtTrackRequest
    \/ StmtTrackLastSeen
    \/ StmtSetLastRequestTime
    \/ EndProcess
    \/ UpdateActiveConnections
    \/ CalculateRequestsPerSecond
    \/ Sleep

(* request paths *)
Paths == {"/metrics", "/health", "/", "/metrics/"}

(* self.path.startswith('/metrics') *)
do_GET_Prefix(path) ==
    /\ response' =
          IF path \in {"/metrics", "/metrics/"}
          THEN [path |-> path, code |-> 200,
                content_type |-> "text/plain; version=0.0.4; charset=utf-8",
                text |-> "", metrics |-> Snapshot]
          ELSE IF path = "/health"
          THEN [path |-> path, code |-> 200, content_type |-> "text/plain",
                text |-> "OK", metrics |-> NoMetrics]
          ELSE [path |-> path, code |-> 404, content_type |-> "",
                text |-> "", metrics |-> NoMetrics]
    /\ UNCHANGED <<counters, gauges, tracker, files, proc, now, histograms>>

(* MetricsHandler.do_GET; the response is kept with the path of its request *)
do_GET(path) ==
    /\ response' =
          IF path = "/metrics"
          THEN [path |-> path, code |-> 200,
                content_type |-> "text/plain; version=0.0.4; charset=utf-8",
                text |-> "", metrics |-> Snapshot]
          ELSE IF path = "/health"
          THEN [path |-> path, code |-> 200, content_type |-> "text/plain",
                text |-> "OK", metrics |-> NoMetrics]
          ELSE [path |-> path, code |-> 404, content_type |-> "",
                text |-> "", metrics |-> NoMetrics]
    /\ UNCHANGED <<counters, gauges, tracker, files, proc, now, histograms>>

NextConc ==
    \/ \E line \in ConcLines : NginxWrites(line, MaxConcLines)
    \/ \E d \in Deltas : AdvanceClock(d)
    \/ ProcessorStmt
    \/ \E path \in Paths : do_GET(path)

SpecConc == Init /\ [][NextConc]_vars

----------------------------------------------------------------------------
(* A tick that fails.  Reading the next line raises an exception that is not
   an IOError (a UnicodeDecodeError of the text file, say): it leaves
   process_log_file without save_log_position, skips the refresh and reaches
   the except clause of log_processor_loop.  The failures stop once the
   requests counted reach MaxRequests, which keeps the counters bounded. *)

MaxFailLines == 2      \* lines written to the log in this specification
MaxRequests  == 3      \* requests counted up to which a read may fail

FailLines ==
    { Line(UserA, "GET", UriServer1, <<"2","0","0">>, <<"1","0","0","0">>, TRUE, TRUE,  <<"0",".","1">>),
      Line(UserB, "GET", UriServer2, <<"5","0","4">>, <<"0">>,             TRUE, FALSE, <<>>) }

RECURSIVE Total(_)
(* sum of the values of a metric *)
Total(m) ==
    IF DOMAIN m = {} THEN 0
    ELSE LET k == CHOOSE x \in DOMAIN m : TRUE
         IN  m[k] + Total([x \in DOMAIN m \ {k} |-> m[x]])

(* "for line in f" raises *)
ReadRaises ==
    /\ pc = "for_line"
    /\ f_pos < Len(log)
    /\ Total(user_requests_total) < MaxRequests
    /\ pc' = "except"
    /\ UNCHANGED <<counters, gauges, tracker, files, f_pos, current_time, now,
                   response, histograms>>

(* the except clause left without going round the loop again *)
HandleError_Exit ==
    /\ pc = "except"
    /\ pc' = "exited"
    /\ UNCHANGED <<counters, gauges, tracker, files, f_pos, current_time, now,
                   response, histograms>>

(* except Exception: print(...); time.sleep(5); then the next turn *)
HandleError ==
    /\ pc = "except"
    /\ pc' = "process_log_file"
    /\ UNCHANGED <<counters, gauges, tracker, files, f_pos, current_time, now,
                   response, histograms>>

ProcessorFail ==
    \/ Processor
    \/ ReadRaises
    \/ HandleError

NextFail ==
    \/ \E line \in FailLines : NginxWrites(line, MaxFailLines)
    \/ \E d \in Deltas : AdvanceClock(d)
    \/ ProcessorFail

SpecFail == Init /\ [][NextFail]_vars

(* the processor thread keeps being scheduled *)
SpecFailLive == SpecFail /\ WF_vars(ProcessorFail)

----------------------------------------------------------------------------
(* The parser on one line of any shape: the exporter starts on a log that
   holds one line and ingests it. *)

UriServer10   == <<"/","s","e","r","v","e","r","1","0">>
UriServer2Sub == <<"/","s","e","r","v","e","r","2","/","x">>
UriServer     == <<"/","s","e","r","v","e","r">>
UriNested     == <<"/","x","/","s","e","r","v","e","r","1">>
UriApi        == <<"/","a","p","i">>

ParseUris ==
    {UriServer1, UriServer1Sub, UriServer10, UriServer2, UriServer2Sub,
     UriServer, UriNested, UriApi, UriRoot}
ParseStatuses ==
    {<<"2","0","0">>, <<"4","2","9">>, <<"5","0","4">>, <<"4","0","8">>}
ParseBytes ==
    {<<"0">>, <<"1","0","2","4">>, <<>>, <<"-">>, <<"1","k">>}
ParseTimes ==
    {<<"0",".","1">>, <<"6","0","0",".","0">>, <<"6","5","0",".","5">>,
     <<"7","0","0">>, <<>>, <<"-">>, <<"1",".","2",".","3">>, <<".">>}

ParseLines ==
    { Line(UserA, "GET", uri, status, bytes, quoted, FALSE, <<>>) :
          uri \in ParseUris, status \in ParseStatuses, bytes \in ParseBytes,
          quoted \in BOOLEAN }
    \cup
    { Line(UserA, "GET", uri, status, bytes, TRUE, TRUE, rt) :
          uri \in ParseUris, status \in ParseStatuses, bytes \in ParseBytes,
          rt \in ParseTimes }

InitParse ==
    /\ user_requests_total = Empty
    /\ user_bytes_total = Empty
    /\ rate_limit_hits_total = Empty
    /\ rate_limit_hits_global_total = Empty
    /\ timeout_events_total = Empty
    /\ timeout_events_global_total = Empty
    /\ user_active_connections = Empty
    /\ user_requests_per_second = Empty
    /\ user_last_request_time = Empty
    /\ user_request_duration_seconds = Empty
    /\ active_users = Empty
    /\ user_last_seen = Empty
    /\ log \in {<<line>> : line \in ParseLines}
    /\ log_exists = TRUE
    /\ log_position = 0
    /\ pc = "process_log_file"
    /\ f_pos = 0
    /\ current_time = 0
    /\ now = 0
    /\ response = NoResponse

NextParse == Processor

SpecParse == InitParse /\ [][NextParse]_vars

----------------------------------------------------------------------------
(* The log file truncated or replaced by a new, empty file (log rotation)
   while the position file stays.  f.seek(position) beyond the end of the
   file reads nothing and f.tell() gives the position back.  Truncations stop
   once the requests counted reach MaxRotRequests, which keeps the counters
   bounded. *)

MaxRotLines    == 2    \* lines in the log file in this specification
MaxRotRequests == 3    \* requests counted up to which the file may be truncated

RotLines ==
    { Line(UserA, "GET", UriServer1, <<"2","0","0">>, <<"1","0","0","0">>, TRUE, TRUE,  <<"0",".","1">>),
      Line(UserB, "GET", UriServer2, <<"2","0","0">>, <<"7">>,             TRUE, FALSE, <<>>) }

(* the file at log_file_path is emptied *)
Truncate ==
    /\ log_exists
    /\ Len(log) > 0
    /\ Total(user_requests_total) < MaxRotRequests
    /\ log' = <<>>
    /\ UNCHANGED <<counters, gauges, tracker, log_exists, log_position, proc,
                   now, response, histograms>>

NextRotate ==
    \/ \E line \in RotLines : NginxWrites(line, MaxRotLines)
    \/ Truncate
    \/ Processor

SpecRotate == Init /\ [][NextRotate]_vars

(* the processor thread keeps being scheduled *)
SpecRotateLive == SpecRotate /\ WF_vars(Processor)

----------------------------------------------------------------------------
(* Vocabulary of the properties *)

RECURSIVE SumFn(_, _)
(* sum of f[x] over the x in S *)
SumFn(f, S) ==
    IF S = {} THEN 0
    ELSE LET x == CHOOSE y \in S : TRUE
         IN  f[x] + SumFn(f, S \ {x})

(* this step is one iteration of the loop over the lines; it reads TheLine *)
LineStep == pc = "for_line" /\ f_pos' = f_pos + 1
TheLine  == log[f_pos + 1]

(* the lines ingested so far *)
Ingested == SubSeq(log, 1, f_pos)

(* the line is accepted: parse_log_line returns an entry *)
Accepted(line) == parse_log_line(line) # <<>>

----------------------------------------------------------------------------
(* C1: for every (route, method), rate_limit_hits_global_total{route, method}
   equals the sum over all clients of
   rate_limit_hits_total{client, route, method}. *)

RateLimitUsers == {k[1] : k \in DOMAIN rate_limit_hits_total}
RateLimitKeys ==
    {<<k[2], k[3]>> : k \in DOMAIN rate_limit_hits_total}
        \cup DOMAIN rate_limit_hits_global_total

C1_GlobalRateLimitIsSum ==
    \A rm \in RateLimitKeys :
        Val(rate_limit_hits_global_total, rm) =
            SumFn([u \in RateLimitUsers |->
                      Val(rate_limit_hits_total, <<u, rm[1], rm[2]>>)],
                  RateLimitUsers)

(* two clients were rate limited on the same route with the same method *)
C1_Witness ==
    /\ Val(rate_limit_hits_total, <<UserA, "/", "POST">>) = 1
    /\ Val(rate_limit_hits_total, <<UserB, "/", "POST">>) = 1
    /\ Val(rate_limit_hits_global_total, <<"/", "POST">>) = 2

----------------------------------------------------------------------------
(* C2: for every (route, timeout kind, method),
   timeout_events_global_total{route, kind, method} equals the sum over all
   clients of timeout_events_total{client, route, kind, method}. *)

TimeoutUsers == {k[1] : k \in DOMAIN timeout_events_total}
TimeoutKeys ==
    {<<k[2], k[3], k[4]>> : k \in DOMAIN timeout_events_total}
        \cup DOMAIN timeout_events_global_total

C2_GlobalTimeoutIsSum ==
    \A rkm \in TimeoutKeys :
        Val(timeout_events_global_total, rkm) =
            SumFn([u \in TimeoutUsers |->
                      Val(timeout_events_total, <<u, rkm[1], rkm[2], rkm[3]>>)],
                  TimeoutUsers)

(* two clients had a response timeout on the same route with the same method *)
C2_Witness ==
    /\ Val(timeout_events_total, <<UserA, "/", "response_timeout", "POST">>) = 1
    /\ Val(timeout_events_total, <<UserB, "/", "response_timeout", "POST">>) = 1
    /\ Val(timeout_events_global_total, <<"/", "response_timeout", "POST">>) = 2

----------------------------------------------------------------------------
(* C3: an accepted line increments at most one timeout_events_total tuple, by
   exactly 1: gateway_timeout for status 504 whatever the duration, else
   request_timeout for status 408, else response_timeout for a duration
   strictly greater than 600.0; otherwise (duration 600.0 or absent) neither
   the per-client nor the global timeout counter changes. *)

(* the line carries a duration, and it is more than 600 seconds *)
DurationOver600(line) ==
    /\ line.has_rt
    /\ LET d == FloatVal(line.rt)
       IN  d.mant > 600 * Pow10(d.scale)

ExpectedTimeoutKind(line) ==
    CASE line.status = <<"5","0","4">> -> "gateway_timeout"
      [] line.status # <<"5","0","4">> /\ line.status = <<"4","0","8">> ->
             "request_timeout"
      [] line.status # <<"5","0","4">> /\ line.status # <<"4","0","8">>
             /\ DurationOver600(line) -> "response_timeout"
      [] OTHER -> "none"

C3_TimeoutStep ==
    (LineStep /\ Accepted(TheLine)) =>
        LET kind  == ExpectedTimeoutKind(TheLine)
            route == Route(TheLine.uri)
            k     == <<TheLine.remote_addr, route, kind, TheLine.method>>
            g     == <<route, kind, TheLine.method>>
        IN  IF kind = "none"
            THEN /\ timeout_events_total' = timeout_events_total
                 /\ timeout_events_global_total' = timeout_events_global_total
            ELSE /\ timeout_events_total' = Inc(timeout_events_total, k, 1)
                 /\ timeout_events_global_total' =
                        Inc(timeout_events_global_total, g, 1)

C3_TimeoutPriority == [][C3_TimeoutStep]_vars

(* a 504 line of 700 seconds and a 200 line of exactly 600.0 seconds were
   ingested: one gateway_timeout, no response_timeout *)
C3_Witness ==
    /\ \E i \in 1..f_pos :
          log[i].status = <<"5","0","4">> /\ DurationOver600(log[i])
    /\ \E i \in 1..f_pos :
          log[i].status = <<"2","0","0">> /\ log[i].rt = <<"6","0","0",".","0">>
    /\ DOMAIN timeout_events_total =
          {<<UserB, "/server1", "gateway_timeout", "GET">>}
    /\ timeout_events_total[<<UserB, "/server1", "gateway_timeout", "GET">>] = 1

----------------------------------------------------------------------------
(* C4: ingesting a line that matches neither grammar changes no counter, no
   gauge, no request count and no last-seen time, and the loop goes on to the
   next line. *)

OnlyDigits(tok) ==
    tok # <<>> /\ \A i \in DOMAIN tok :
        tok[i] \in {"0","1","2","3","4","5","6","7","8","9"}

(* the line lacks what both grammars require *)
MatchesNeither(line) ==
    \/ line.remote_addr = "" \/ line.method = "" \/ line.uri = <<>>
    \/ ~OnlyDigits(line.status)
    \/ ~OnlyDigits(line.body_bytes_sent)
    \/ ~line.quoted

C4_DroppedStep ==
    (LineStep /\ MatchesNeither(TheLine)) =>
        /\ UNCHANGED <<counters, gauges, tracker>>
        /\ pc' = "for_line"

C4_UnparseableChangesNothing == [][C4_DroppedStep]_vars

(* the log holds nothing but unparseable lines, all read: nothing is counted *)
C4_Witness ==
    /\ f_pos = Len(log) /\ f_pos > 0
    /\ \A i \in 1..f_pos : MatchesNeither(log[i])
    /\ user_requests_total = Empty /\ user_bytes_total = Empty
    /\ active_users = Empty /\ user_last_seen = Empty

----------------------------------------------------------------------------
(* C5: an accepted line increments exactly the requests_total tuple
   (clientAddress, statusCode, method, route) of that line, by exactly 1, and
   leaves every other tuple as it was; so the value of a tuple is the number
   of ingested accepted lines with these labels. *)

RequestLabels(line) ==
    <<line.remote_addr, line.status, line.method, Route(line.uri)>>

C5_RequestStep ==
    (LineStep /\ Accepted(TheLine)) =>
        /\ DOMAIN user_requests_total' =
               DOMAIN user_requests_total \cup {RequestLabels(TheLine)}
        /\ \A k \in DOMAIN user_requests_total' :
               user_requests_total'[k] =
                   Val(user_requests_total, k)
                       + (IF k = RequestLabels(TheLine) THEN 1 ELSE 0)

C5_RequestCount ==
    \A k \in DOMAIN user_requests_total \cup {RequestLabels(l) : l \in Lines} :
        Val(user_requests_total, k) =
            Cardinality({i \in 1..f_pos :
                            Accepted(log[i]) /\ RequestLabels(log[i]) = k})

C5_RequestsCountedPerTuple == [][C5_RequestStep]_vars /\ []C5_RequestCount

(* the same line ingested twice: its tuple, and no other, stands at 2 *)
C5_Witness ==
    /\ f_pos = 2 /\ log[1] = log[2]
    /\ user_requests_total =
           (<<UserA, <<"2","0","0">>, "GET", "/server1">> :> 2)

----------------------------------------------------------------------------
(* C6: bytes_total{client, sent} is the sum of bytesSent over the ingested
   accepted lines of that client; the lines of another client do not enter
   it. *)

(* the byte counts written in the lines *)
BytesOf(line) ==
    CASE line.body_bytes_sent = <<"0">> -> 0
      [] line.body_bytes_sent = <<"7">> -> 7
      [] line.body_bytes_sent = <<"1","0","0","0">> -> 1000
      [] line.body_bytes_sent = <<"2","0","0","0">> -> 2000
      [] line.body_bytes_sent = <<"5","0","0","0">> -> 5000

Clients == {l.remote_addr : l \in Lines \cup BurstLines}

C6_BytesIsSumPerClient ==
    /\ \A k \in DOMAIN user_bytes_total : k[1] \in Clients /\ k[2] = "sent"
    /\ \A u \in Clients :
          LET mine == {i \in 1..f_pos :
                          Accepted(log[i]) /\ log[i].remote_addr = u}
          IN  Val(user_bytes_total, <<u, "sent">>) =
                  SumFn([i \in mine |-> BytesOf(log[i])], mine)

(* 1000 and 2000 bytes of one client make 3000 *)
C6_Witness ==
    /\ f_pos = 2
    /\ {BytesOf(log[1]), BytesOf(log[2])} = {1000, 2000}
    /\ user_bytes_total = (<<UserA, "sent">> :> 3000)

----------------------------------------------------------------------------
(* C7: an accepted line increments rate_limit_hits_total{client, route,
   method} by 1 if and only if its status is exactly 429, whatever the timeout
   classification: a 429 line of more than 600 seconds also counts as a
   response_timeout, and a 504 or 408 line changes no rate-limit counter. *)

C7_RateLimitStep ==
    (LineStep /\ Accepted(TheLine)) =>
        LET route == Route(TheLine.uri)
            k     == <<TheLine.remote_addr, route, TheLine.method>>
        IN  /\ IF TheLine.status = <<"4","2","9">>
               THEN /\ DOMAIN rate_limit_hits_total' =
                           DOMAIN rate_limit_hits_total \cup {k}
                    /\ \A x \in DOMAIN rate_limit_hits_total' :
                           rate_limit_hits_total'[x] =
                               Val(rate_limit_hits_total, x)
                                   + (IF x = k THEN 1 ELSE 0)
               ELSE /\ rate_limit_hits_total' = rate_limit_hits_total
                    /\ rate_limit_hits_global_total' =
                           rate_limit_hits_global_total
            /\ (TheLine.status = <<"4","2","9">> /\ DurationOver600(TheLine)) =>
                   Val(timeout_events_total',
                       <<TheLine.remote_addr, route, "response_timeout",
                         TheLine.method>>) =
                   Val(timeout_events_total,
                       <<TheLine.remote_addr, route, "response_timeout",
                         TheLine.method>>) + 1

C7_RateLimitIffStatus429 == [][C7_RateLimitStep]_vars

(* a 429 line of 700 seconds and a 408 line were ingested: one rate-limit
   hit, one response_timeout, one request_timeout *)
C7_Witness ==
    /\ f_pos = 2
    /\ \E i \in 1..2 : log[i].status = <<"4","0","8">>
    /\ rate_limit_hits_total = (<<UserA, "/", "POST">> :> 1)
    /\ Val(timeout_events_total, <<UserA, "/", "response_timeout", "POST">>) = 1
    /\ Val(timeout_events_total, <<UserB, "/server2", "request_timeout", "GET">>) = 1

----------------------------------------------------------------------------
(* Steps of the refresh *)

UpdateStep ==
    pc = "update_active_connections" /\ pc' = "calculate_requests_per_second"
RpsStep ==
    pc = "calculate_requests_per_second" /\ pc' = "sleep"

----------------------------------------------------------------------------
(* C8: a refresh at time now sets, for every tracked client with
   now - lastSeenTimestamp >= 60, 60 itself included, active_connections to 0
   and the request count to 0. *)

C8_InactiveStep ==
    UpdateStep =>
        \A u \in DOMAIN user_last_seen :
            now - user_last_seen[u] >= 60 =>
                /\ u \in DOMAIN user_active_connections'
                /\ user_active_connections'[u] = 0
                /\ u \in DOMAIN active_users'
                /\ active_users'[u] = 0

C8_InactiveClientReset == [][C8_InactiveStep]_vars

(* a client last seen exactly 60 units ago has just been reset by the refresh,
   next to a client that is still counted *)
C8_Witness ==
    /\ pc = "calculate_requests_per_second"
    /\ \E u \in DOMAIN user_last_seen :
          /\ now - user_last_seen[u] = 60
          /\ active_users[u] = 0
          /\ user_active_connections[u] = 0
    /\ \E u \in DOMAIN user_last_seen :
          /\ now - user_last_seen[u] < 60
          /\ active_users[u] > 0

----------------------------------------------------------------------------
(* C9: a refresh at time now sets, for every tracked client with
   now - lastSeenTimestamp < 60, active_connections to
   min(requestCount, 10) and requests_per_second to requestCount / 60, and
   leaves the request count of that client unchanged. *)

C9_ActiveStep ==
    /\ UpdateStep =>
          \A u \in DOMAIN user_last_seen :
              now - user_last_seen[u] < 60 =>
                  /\ u \in DOMAIN active_users
                  /\ active_users'[u] = active_users[u]
                  /\ u \in DOMAIN user_active_connections'
                  /\ user_active_connections'[u] =
                         (IF active_users[u] <= 10 THEN active_users[u] ELSE 10)
    /\ RpsStep =>
          \A u \in DOMAIN user_last_seen :
              /\ active_users'[u] = active_users[u]
              /\ u \in DOMAIN user_requests_per_second'
              /\ user_requests_per_second'[u].den > 0
              /\ user_requests_per_second'[u].num * 60 =
                     active_users[u] * user_requests_per_second'[u].den

C9_ActiveClientGauges == [][C9_ActiveStep]_vars

(* a client with 11 requests in the window: 10 connections, 11/60 per second *)
C9_Witness ==
    /\ pc = "sleep"
    /\ UserA \in DOMAIN user_last_seen
    /\ UserA \in DOMAIN user_requests_per_second
    /\ now - user_last_seen[UserA] < 60
    /\ active_users[UserA] = 11
    /\ user_active_connections[UserA] = 10
    /\ user_requests_per_second[UserA] = [num |-> 11, den |-> 60]

----------------------------------------------------------------------------
(* C10: an accepted line adds exactly 1 to the request count of its client
   and sets the last-seen time of that client, and changes the count of no
   other client; while no refresh steps in, the count of a client follows the
   number of accepted lines from it; the tracked clients are the distinct
   client addresses seen. *)

(* accepted lines of the client u among the first n lines of lg *)
AcceptedFrom(lg, n, u) ==
    Cardinality({i \in 1..n : Accepted(lg[i]) /\ lg[i].remote_addr = u})

C10_TrackStep ==
    /\ (LineStep /\ Accepted(TheLine)) =>
          LET c == TheLine.remote_addr
          IN  /\ DOMAIN active_users' = DOMAIN active_users \cup {c}
              /\ DOMAIN user_last_seen' = DOMAIN user_last_seen \cup {c}
              /\ active_users'[c] = Val(active_users, c) + 1
              /\ user_last_seen'[c] = current_time
              /\ current_time <= now
              /\ \A u \in DOMAIN active_users \ {c} :
                     active_users'[u] = active_users[u]
              /\ \A u \in DOMAIN user_last_seen \ {c} :
                     user_last_seen'[u] = user_last_seen[u]
    /\ ~UpdateStep =>
          \A u \in Clients :
              Val(active_users', u) - AcceptedFrom(log', f_pos', u) =
                  Val(active_users, u) - AcceptedFrom(log, f_pos, u)

C10_TrackedClients ==
    /\ DOMAIN user_last_seen =
           {log[i].remote_addr : i \in {j \in 1..f_pos : Accepted(log[j])}}
    /\ DOMAIN active_users = DOMAIN user_last_seen
    /\ now < 60 =>
           \A u \in Clients :
               Val(active_users, u) = AcceptedFrom(log, f_pos, u)

C10_RequestTracking == [][C10_TrackStep]_vars /\ []C10_TrackedClients

(* one line of each of two clients, ingested in two passes: two tracked
   clients, a count of 1 each, two last-seen times *)
C10_Witness ==
    /\ f_pos = 2
    /\ log[1].remote_addr = UserA /\ log[2].remote_addr = UserB
    /\ Accepted(log[1]) /\ Accepted(log[2])
    /\ active_users = (UserA :> 1) @@ (UserB :> 1)
    /\ user_last_seen[UserA] < user_last_seen[UserB]

----------------------------------------------------------------------------
(* C11: in every step of every interleaving of ingestion, refresh and scrape,
   no value of requests_total, bytes_total, rate_limit_hits_total,
   rate_limit_hits_global_total, timeout_events_total or
   timeout_events_global_total is lower after the step than before it. *)

NotLower(m, n) == \A k \in DOMAIN m : Val(n, k) >= m[k]

C11_CounterStep ==
    /\ NotLower(user_requests_total, user_requests_total')
    /\ NotLower(user_bytes_total, user_bytes_total')
    /\ NotLower(rate_limit_hits_total, rate_limit_hits_total')
    /\ NotLower(rate_limit_hits_global_total, rate_limit_hits_global_total')
    /\ NotLower(timeout_events_total, timeout_events_total')
    /\ NotLower(timeout_events_global_total, timeout_events_global_total')

C11_CountersNeverDecrease == [][C11_CounterStep]_vars

(* a scrape saw 1000 bytes for a client; since then a smaller request of the
   client was ingested, a refresh ran, and the counter has grown *)
C11_Witness ==
    /\ response.code = 200
    /\ Val(response.metrics.user_bytes_total, <<UserA, "sent">>) = 1000
    /\ Val(user_bytes_total, <<UserA, "sent">>) = 1007
    /\ UserA \in DOMAIN user_requests_per_second

----------------------------------------------------------------------------
(* C13: no scrape concurrent with ingestion returns a snapshot in which the
   per-client rate-limit counters of some (route, method), or the per-client
   timeout counters of some (route, kind, method), sum to a value different
   from the matching global counter. *)

SnapshotInLockstep(m) ==
    LET rl_users == {k[1] : k \in DOMAIN m.rate_limit_hits_total}
        rl_keys  == {<<k[2], k[3]>> : k \in DOMAIN m.rate_limit_hits_total}
                        \cup DOMAIN m.rate_limit_hits_global_total
        to_users == {k[1] : k \in DOMAIN m.timeout_events_total}
        to_keys  == {<<k[2], k[3], k[4]>> : k \in DOMAIN m.timeout_events_total}
                        \cup DOMAIN m.timeout_events_global_total
    IN  /\ \A rm \in rl_keys :
              Val(m.rate_limit_hits_global_total, rm) =
                  SumFn([u \in rl_users |->
                            Val(m.rate_limit_hits_total, <<u, rm[1], rm[2]>>)],
                        rl_users)
        /\ \A rkm \in to_keys :
              Val(m.timeout_events_global_total, rkm) =
                  SumFn([u \in to_users |->
                            Val(m.timeout_events_total,
                                <<u, rkm[1], rkm[2], rkm[3]>>)],
                        to_users)

C13_ScrapeSeesLockstep ==
    response.code = 200 => SnapshotInLockstep(response.metrics)

----------------------------------------------------------------------------
(* C20: a label tuple of a metric and an Activity Tracker entry of a client,
   once there, are there in every later state: no ingestion, no refresh, the
   inactivity reset included, and no scrape removes one. *)

C20_KeepStep ==
    /\ DOMAIN user_requests_total \subseteq DOMAIN user_requests_total'
    /\ DOMAIN user_bytes_total \subseteq DOMAIN user_bytes_total'
    /\ DOMAIN rate_limit_hits_total \subseteq DOMAIN rate_limit_hits_total'
    /\ DOMAIN rate_limit_hits_global_total
           \subseteq DOMAIN rate_limit_hits_global_total'
    /\ DOMAIN timeout_events_total \subseteq DOMAIN timeout_events_total'
    /\ DOMAIN timeout_events_global_total
           \subseteq DOMAIN timeout_events_global_total'
    /\ DOMAIN user_active_connections \subseteq DOMAIN user_active_connections'
    /\ DOMAIN user_requests_per_second \subseteq DOMAIN user_requests_per_second'
    /\ DOMAIN user_last_request_time \subseteq DOMAIN user_last_request_time'
    /\ DOMAIN active_users \subseteq DOMAIN active_users'
    /\ DOMAIN user_last_seen \subseteq DOMAIN user_last_seen'

C20_LabelsNeverRemoved == [][C20_KeepStep]_vars

(* a client was reset for inactivity and scraped afterwards: its tracker entry
   and its label tuples are still there *)
C20_Witness ==
    /\ UserA \in DOMAIN user_last_seen
    /\ now - user_last_seen[UserA] >= 60
    /\ active_users[UserA] = 0
    /\ UserA \in DOMAIN user_requests_per_second
    /\ user_requests_per_second[UserA].num = 0
    /\ <<UserA, "sent">> \in DOMAIN user_bytes_total
    /\ response.code = 200
    /\ UserA \in DOMAIN response.metrics.user_active_connections
    /\ response.metrics.user_active_connections[UserA] = 0

----------------------------------------------------------------------------
(* C12: active_connections and requests_per_second are written by the refresh
   only: ingesting a line, accepted or not, and every other step leave them as
   they are; the refresh changes no counter and no last_request_time. *)

C12_OwnerStep ==
    /\ ~UpdateStep => UNCHANGED user_active_connections
    /\ ~RpsStep => UNCHANGED user_requests_per_second
    /\ LineStep => UNCHANGED <<user_active_connections, user_requests_per_second>>
    /\ (UpdateStep \/ RpsStep) => UNCHANGED <<counters, user_last_request_time>>

C12_GaugesOwnedByRefresh == [][C12_OwnerStep]_vars

(* a second request of a client was ingested after a refresh: the count is 2,
   the gauges still show what the refresh wrote for 1 *)
C12_Witness ==
    /\ pc = "for_line"
    /\ f_pos = 2
    /\ UserA \in DOMAIN user_active_connections
    /\ UserA \in DOMAIN user_requests_per_second
    /\ active_users[UserA] = 2
    /\ user_active_connections[UserA] = 1
    /\ user_requests_per_second[UserA] = [num |-> 1, den |-> 60]

----------------------------------------------------------------------------
(* C14: a failure inside a tick never ends the loop: whenever a tick has
   raised an error, process_log_file of a next tick is eventually entered,
   however many ticks failed in a row before. *)

C14_NextTickAfterFailure ==
    (pc = "except") ~> (pc \in {"for_line", "update_active_connections"})

(* two ticks in a row counted the first line and failed on the second, the
   position was never saved, and a third tick is reading *)
C14_Witness ==
    /\ pc = "for_line"
    /\ f_pos = 0 /\ log_position = 0
    /\ Len(log) = 2
    /\ Total(user_requests_total) = 2
    /\ user_active_connections = Empty

----------------------------------------------------------------------------
(* Vocabulary of the properties about single lines *)

(* the line is well formed in everything but the byte count and the timing *)
PrefixWellFormed(line) ==
    /\ line.remote_addr # "" /\ line.method # "" /\ line.uri # <<>>
    /\ OnlyDigits(line.status)
    /\ line.quoted

(* the rt tokens that are numbers *)
NumberTokens ==
    {<<"0",".","1">>, <<"6","0","0",".","0">>, <<"6","5","0",".","5">>,
     <<"7","0","0">>}

(* the line has a duration field, and it is a number *)
HasDuration(line) == line.has_rt /\ line.rt \in NumberTokens

(* the byte count written in the line, 0 when it is not a number *)
ByteCount(line) ==
    CASE line.body_bytes_sent = <<"1","0","2","4">> -> 1024
      [] line.body_bytes_sent = <<"1","0","0","0">> -> 1000
      [] line.body_bytes_sent = <<"7">> -> 7
      [] OTHER -> 0

(* the timeout kind of a line whose duration does not count *)
StatusTimeoutKind(line) ==
    CASE line.status = <<"5","0","4">> -> "gateway_timeout"
      [] line.status = <<"4","0","8">> -> "request_timeout"
      [] OTHER -> "none"

(* this step counts TheLine as one request of ByteCount bytes, as a
   rate-limit hit when its status is 429, and with the timeout kind kind *)
CountedWith(kind) ==
    LET c     == TheLine.remote_addr
        m     == TheLine.method
        route == Route(TheLine.uri)
    IN  /\ user_requests_total' =
               Inc(user_requests_total, <<c, TheLine.status, m, route>>, 1)
        /\ user_bytes_total' =
               Inc(user_bytes_total, <<c, "sent">>, ByteCount(TheLine))
        /\ rate_limit_hits_total' =
               (IF TheLine.status = <<"4","2","9">>
                THEN Inc(rate_limit_hits_total, <<c, route, m>>, 1)
                ELSE rate_limit_hits_total)
        /\ rate_limit_hits_global_total' =
               (IF TheLine.status = <<"4","2","9">>
                THEN Inc(rate_limit_hits_global_total, <<route, m>>, 1)
                ELSE rate_limit_hits_global_total)
        /\ timeout_events_total' =
               (IF kind # "none"
                THEN Inc(timeout_events_total, <<c, route, kind, m>>, 1)
                ELSE timeout_events_total)
        /\ timeout_events_global_total' =
               (IF kind # "none"
                THEN Inc(timeout_events_global_total, <<route, kind, m>>, 1)
                ELSE timeout_events_global_total)

----------------------------------------------------------------------------
(* C15: a line whose BYTES token is empty or not a number is accepted with
   bytesSent = 0: it adds 1 to requests_total and 0 to bytes_total and is
   classified for rate limit and timeout like any accepted line. *)

C15_BytesDefaultStep ==
    (/\ LineStep
     /\ PrefixWellFormed(TheLine)
     /\ ~OnlyDigits(TheLine.body_bytes_sent)
     /\ (~TheLine.has_rt \/ HasDuration(TheLine)))
        => CountedWith(ExpectedTimeoutKind(TheLine))

C15_BadBytesCountAsZero == [][C15_BytesDefaultStep]_vars

----------------------------------------------------------------------------
(* C16: a line whose duration field is missing or not a number is accepted
   with the duration absent: requests_total, bytes_total, the rate-limit
   counters and the timeout kinds of the status codes 504 and 408 are updated
   as usual; only the response_timeout rule is off for that line. *)

C16_BadDurationStep ==
    (/\ LineStep
     /\ PrefixWellFormed(TheLine)
     /\ OnlyDigits(TheLine.body_bytes_sent)
     /\ ~HasDuration(TheLine))
        => CountedWith(StatusTimeoutKind(TheLine))

C16_BadDurationStillCounted == [][C16_BadDurationStep]_vars

----------------------------------------------------------------------------
(* C17: a line without the timing suffix is accepted through the basic
   grammar with the duration absent: it is counted in requests_total and
   bytes_total and makes no response_timeout event, while a status of 504 or
   408 on it still makes a gateway_timeout or a request_timeout. *)

C17_NoSuffixStep ==
    (/\ LineStep
     /\ PrefixWellFormed(TheLine)
     /\ OnlyDigits(TheLine.body_bytes_sent)
     /\ ~TheLine.has_rt)
        => /\ CountedWith(StatusTimeoutKind(TheLine))
           /\ \A k \in DOMAIN timeout_events_total' : k[3] # "response_timeout"

C17_BasicGrammarAccepted == [][C17_NoSuffixStep]_vars

(* a 504 line of 1024 bytes without the suffix was ingested *)
C17_Witness ==
    /\ f_pos = 1
    /\ ~log[1].has_rt
    /\ user_requests_total =
           (<<UserA, <<"5","0","4">>, "GET", "/server2">> :> 1)
    /\ user_bytes_total = (<<UserA, "sent">> :> 1024)
    /\ timeout_events_total =
           (<<UserA, "/server2", "gateway_timeout", "GET">> :> 1)

----------------------------------------------------------------------------
(* C19: the route of an accepted line is '/server1' when the URI starts with
   /server1, sub-paths included, else '/server2' when it starts with
   /server2, else '/'; requests to different buckets are counted in different
   requests_total tuples. *)

ExpectedRoute(uri) ==
    CASE uri = UriServer1    -> "/server1"
      [] uri = UriServer1Sub -> "/server1"
      [] uri = UriServer10   -> "/server1"
      [] uri = UriServer2    -> "/server2"
      [] uri = UriServer2Sub -> "/server2"
      [] uri = UriServer     -> "/"
      [] uri = UriNested     -> "/"
      [] uri = UriApi        -> "/"
      [] uri = UriRoot       -> "/"

C19_RouteStep ==
    (LineStep /\ Accepted(TheLine)) =>
        /\ ExpectedRoute(TheLine.uri) \in {"/server1", "/server2", "/"}
        /\ user_requests_total' =
               Inc(user_requests_total,
                   <<TheLine.remote_addr, TheLine.status, TheLine.method,
                     ExpectedRoute(TheLine.uri)>>, 1)

C19_RouteBuckets == [][C19_RouteStep]_vars

(* a request to a sub-path of /server1 was counted under /server1 *)
C19_Witness ==
    /\ f_pos = 1
    /\ log[1].uri = UriServer1Sub
    /\ user_requests_total =
           (<<UserA, <<"2","0","0">>, "GET", "/server1">> :> 1)

----------------------------------------------------------------------------
(* C18: an accepted request sets last_request_time of its client to the
   wall-clock time at which the request is ingested: the value is never
   earlier than the clock read just before the line was handed to
   ingestion (and so the values of two clients are ordered as the wall-clock
   times of their last ingestions). *)

C18_ClockStep ==
    (LineStep /\ Accepted(TheLine)) =>
        /\ TheLine.remote_addr \in DOMAIN user_last_request_time'
        /\ user_last_request_time'[TheLine.remote_addr] >= now

C18_LastRequestTimeIsIngestionTime == [][C18_ClockStep]_vars

----------------------------------------------------------------------------
(* C21: a GET is dispatched by its exact path: /metrics is answered 200 with
   the snapshot of the metrics as they are at that moment, /health is
   answered 200 with the fixed payload OK, every other path is answered 404. *)

C21_DispatchStep ==
    response' # response =>
        /\ response'.path = "/metrics" =>
              /\ response'.code = 200
              /\ response'.metrics = Snapshot
        /\ response'.path = "/health" =>
              /\ response'.code = 200
              /\ response'.text = "OK"
              /\ response'.metrics = NoMetrics
        /\ response'.path \notin {"/metrics", "/health"} =>
              /\ response'.code = 404
              /\ response'.text = ""
              /\ response'.metrics = NoMetrics

C21_DispatchByExactPath == [][C21_DispatchStep]_vars

(* /metrics/ was answered not-found while there were metrics to show *)
C21_Witness ==
    /\ response.path = "/metrics/"
    /\ response.code = 404
    /\ user_requests_total # Empty

----------------------------------------------------------------------------
(* C22: for a well-formed line of the enhanced grammar the parsed record
   carries exactly the client address, method, URI, status, byte count and
   duration written in the line; the enhanced grammar is tried first, so the
   duration of such a line is not lost. *)

(* the duration written in the line, as a fraction *)
DurationOf(line) ==
    CASE line.rt = <<"0",".","1">>         -> [num |-> 1,    den |-> 10]
      [] line.rt = <<"6","0","0",".","0">> -> [num |-> 600,  den |-> 1]
      [] line.rt = <<"6","5","0",".","5">> -> [num |-> 1301, den |-> 2]
      [] line.rt = <<"7","0","0">>         -> [num |-> 700,  den |-> 1]

(* the status written in the line, as a string *)
StatusOf(line) ==
    CASE line.status = <<"2","0","0">> -> "200"
      [] line.status = <<"4","2","9">> -> "429"
      [] line.status = <<"5","0","4">> -> "504"
      [] line.status = <<"4","0","8">> -> "408"

(* status of a record, as a string *)
StatusText(status) ==
    IF Len(status) = 3 THEN status[1] \o status[2] \o status[3] ELSE ""

WellFormedEnhanced(line) ==
    /\ PrefixWellFormed(line)
    /\ OnlyDigits(line.body_bytes_sent)
    /\ HasDuration(line)

C22_EnhancedRecovered ==
    \A i \in 1..Len(log) :
        WellFormedEnhanced(log[i]) =>
            /\ Len(parse_log_line(log[i])) = 1
            /\ LET e == parse_log_line(log[i])[1]
               IN  /\ e.user_ip = log[i].remote_addr
                   /\ e.method = log[i].method
                   /\ e.uri = log[i].uri
                   /\ StatusText(e.status) = StatusOf(log[i])
                   /\ e.bytes_sent = ByteCount(log[i])
                   /\ e.request_time.present
                   /\ e.request_time.mant * DurationOf(log[i]).den =
                          DurationOf(log[i]).num * Pow10(e.request_time.scale)

(* a line of 1024 bytes that took 650.5 seconds was ingested and counted as a
   response timeout, which only its duration can make it *)
C22_Witness ==
    /\ f_pos = 1
    /\ log[1].rt = <<"6","5","0",".","5">>
    /\ log[1].body_bytes_sent = <<"1","0","2","4">>
    /\ user_bytes_total = (<<UserA, "sent">> :> 1024)
    /\ timeout_events_total =
           (<<UserA, "/server1", "response_timeout", "GET">> :> 1)

----------------------------------------------------------------------------
(* C23: every accepted line that carries a duration adds one observation to
   the request_duration_seconds histogram labelled (client address, route);
   a line without a duration adds none. *)

(* the line has the timing suffix with a duration made of digits and dots *)
DurationWritten(line) ==
    /\ line.has_rt
    /\ line.rt # <<>>
    /\ \A i \in 1..Len(line.rt) :
           line.rt[i] \in {"0","1","2","3","4","5","6","7","8","9","."}

C23_ObserveStep ==
    (LineStep /\ Accepted(TheLine)) =>
        user_request_duration_seconds' =
            (IF DurationWritten(TheLine)
             THEN Inc(user_request_duration_seconds,
                      <<TheLine.remote_addr, Route(TheLine.uri)>>, 1)
             ELSE user_request_duration_seconds)

C23_DurationObserved == [][C23_ObserveStep]_vars

----------------------------------------------------------------------------
(* C24: in every reachable state and for every client, the published
   active_connections gauge is an integer from 0 to 10, however many requests
   the client has sent. *)

C24_ConnectionsWithinCap ==
    \A u \in DOMAIN user_active_connections :
        user_active_connections[u] \in 0..10

(* the refresh has just published 10 for a client counted 11 times *)
C24_Witness ==
    /\ pc = "calculate_requests_per_second"
    /\ UserA \in DOMAIN active_users
    /\ UserA \in DOMAIN user_active_connections
    /\ active_users[UserA] = 11
    /\ user_active_connections[UserA] = 10

----------------------------------------------------------------------------
(* C25: parsing is total and all-or-nothing: for every line parse_log_line
   returns either no record or a record in which client address, timestamp,
   method, URI, route, status, bytesSent, rate-limit flag and timeout flag
   and kind are all set; no error reaches the caller and no record is partly
   filled. *)

RecordFields ==
    {"user_ip", "time", "method", "uri", "route", "status", "bytes_sent",
     "request_time", "rate_limit_hit", "timeout_hit", "timeout_type"}

FullyPopulated(e) ==
    /\ DOMAIN e = RecordFields
    /\ e.user_ip # ""
    /\ e.time # ""
    /\ e.method # ""
    /\ e.uri # <<>>
    /\ e.route \in {"/server1", "/server2", "/"}
    /\ e.status # <<>>
    /\ e.bytes_sent \in Nat
    /\ e.rate_limit_hit \in BOOLEAN
    /\ e.timeout_hit \in BOOLEAN
    /\ e.timeout_type \in
           {"", "gateway_timeout", "request_timeout", "response_timeout"}
    /\ e.timeout_hit <=> e.timeout_type # ""

C25_ParseAllOrNothing ==
    \A i \in 1..Len(log) :
        LET r == parse_log_line(log[i])
        IN  \/ r = <<>>
            \/ Len(r) = 1 /\ FullyPopulated(r[1])

(* a line whose duration float() refuses was read and left no trace *)
C25_Witness ==
    /\ f_pos = 1
    /\ pc = "update_active_connections"
    /\ log[1].rt = <<"1",".","2",".","3">>
    /\ log[1].body_bytes_sent = <<"0">>
    /\ parse_log_line(log[1]) = <<>>
    /\ user_requests_total = Empty
    /\ user_last_seen = Empty

----------------------------------------------------------------------------
(* C26: at the end of every complete tick (ingest, update_active_connections,
   calculate_requests_per_second) the published gauges of every tracked
   client agree with the tracker: active_connections = min(count, 10) and
   requests_per_second = count / 60; a client found inactive in the tick has
   both gauges at 0, so no requests_per_second above 0 outlives a reset. *)

C26_GaugesAgreeAtTickEnd ==
    pc = "sleep" =>
        \A u \in DOMAIN user_last_seen :
            /\ u \in DOMAIN active_users
            /\ u \in DOMAIN user_active_connections
            /\ u \in DOMAIN user_requests_per_second
            /\ user_active_connections[u] =
                   (IF active_users[u] < 10 THEN active_users[u] ELSE 10)
            /\ user_requests_per_second[u].den > 0
            /\ user_requests_per_second[u].num * 60 =
                   active_users[u] * user_requests_per_second[u].den
            /\ active_users[u] = 0 =>
                   /\ user_active_connections[u] = 0
                   /\ user_requests_per_second[u].num = 0

(* at the end of a tick a client that sent three requests and then went
   silent has a count of 0 and both gauges at 0 *)
C26_Witness ==
    /\ pc = "sleep"
    /\ UserA \in DOMAIN user_last_seen
    /\ UserA \in DOMAIN active_users
    /\ UserA \in DOMAIN user_active_connections
    /\ UserA \in DOMAIN user_requests_per_second
    /\ now - user_last_seen[UserA] >= 60
    /\ Total(user_requests_total) = 3
    /\ active_users[UserA] = 0
    /\ user_active_connections[UserA] = 0
    /\ user_requests_per_second[UserA].num = 0

----------------------------------------------------------------------------
(* C27: over any sequence of ticks on a log that only grows by whole lines,
   every line is applied to the metrics exactly once: the saved read position
   makes each tick start where the one before ended, so no line is skipped
   and none is counted twice. *)

(* accepted lines among the first n lines of the log *)
AcceptedCount(n) == Cardinality({i \in 1..n : Accepted(log[i])})

C27_PositionStep ==
    /\ (pc = "process_log_file" /\ pc' = "for_line") =>
           f_pos' = log_position
    /\ (pc = "for_line" /\ pc' = "update_active_connections") =>
           /\ log_position' = Len(log)
           /\ Total(user_requests_total') = AcceptedCount(Len(log))

C27_AppliedOnce ==
    /\ Total(user_requests_total) <= AcceptedCount(Len(log))
    /\ log_position <= Len(log)
    /\ pc # "for_line" =>
           Total(user_requests_total) = AcceptedCount(log_position)

C27_EachLineExactlyOnce == [][C27_PositionStep]_vars /\ []C27_AppliedOnce

(* the second tick started after the line the first tick had read and has
   read the line written since *)
C27_Witness ==
    /\ pc = "for_line"
    /\ Len(log) = 2
    /\ log_position = 1
    /\ f_pos = 2
    /\ Total(user_requests_total) = 2

----------------------------------------------------------------------------
(* C28: a line is never applied to the counters more than once, also when a
   tick aborts with an error partway through the file: the lines applied in
   the aborted tick are not applied again by a later tick. *)

C28_NoLineAppliedTwice ==
    \A k \in DOMAIN user_requests_total :
        user_requests_total[k] <=
            Cardinality({i \in 1..Len(log) :
                            Accepted(log[i]) /\ RequestLabels(log[i]) = k})

----------------------------------------------------------------------------
(* C29: every complete line written to the log file is ingested by some
   later tick, also after the file was truncated or replaced by a shorter
   one: when the saved read position is beyond the lines of the file, which
   are all unread then, a later tick reads the file from its first line on,
   unless the file has been emptied again. *)

C29_ShorterFileIngested ==
    (Len(log) > 0 /\ log_position > Len(log))
        ~> (Len(log) = 0 \/ (pc = "for_line" /\ f_pos = 0))

----------------------------------------------------------------------------
(* C30: the request count of a client is reset to 0 only by a refresh that
   finds the client inactive for at least 60 time units; otherwise the count
   never decreases, so the requests_per_second gauge of a client that is
   never found inactive does not decrease from tick to tick, and it is
   written as (requests since the last reset) / 60. *)

C30_CountStep ==
    /\ \A u \in DOMAIN active_users :
           /\ u \in DOMAIN active_users'
           /\ active_users'[u] < active_users[u] =>
                  /\ UpdateStep
                  /\ u \in DOMAIN user_last_seen
                  /\ now - user_last_seen[u] >= 60
                  /\ active_users'[u] = 0
    /\ \A u \in DOMAIN user_requests_per_second :
           /\ u \in DOMAIN user_requests_per_second'
           /\ user_requests_per_second'[u].num * user_requests_per_second[u].den
                  < user_requests_per_second[u].num
                        * user_requests_per_second'[u].den =>
                  /\ RpsStep
                  /\ active_users[u] = 0
    /\ RpsStep =>
           \A u \in DOMAIN user_last_seen :
               /\ u \in DOMAIN user_requests_per_second'
               /\ user_requests_per_second'[u].num * 60 =
                      active_users[u] * user_requests_per_second'[u].den

C30_CountResetOnlyWhenInactive == [][C30_CountStep]_vars

(* at the end of a tick one client, silent for 60 units or more, is back at 0
   while the other, just seen, is counted *)
C30_Witness ==
    /\ pc = "sleep"
    /\ DOMAIN user_last_seen = {UserA, UserB}
    /\ DOMAIN active_users = {UserA, UserB}
    /\ DOMAIN user_requests_per_second = {UserA, UserB}
    /\ now - user_last_seen[UserB] >= 60
    /\ active_users[UserB] = 0
    /\ user_requests_per_second[UserB].num = 0
    /\ now - user_last_seen[UserA] < 60
    /\ active_users[UserA] = 1
    /\ user_requests_per_second[UserA] = [num |-> 1, den |-> 60]

====
